---- MODULE Spec2Model ----
(***************************************************************************)
(* Model of bot/services/nalogo_service.py: NalogoService, a lazily        *)
(* authenticating wrapper around the nalogo API client.  One service       *)
(* instance is shared by NumProcs asyncio tasks; each task makes one call  *)
(* (create_income_receipt, _ensure_authenticated or close).  A coroutine   *)
(* runs until it awaits a collaborator call; every collaborator call may   *)
(* return or raise.  A second instance, built from the same arguments,     *)
(* has its own client and its own lock; the tasks use it only under        *)
(* SpecTwo.                                                                *)
(***************************************************************************)
EXTENDS Naturals, Sequences, FiniteSets

\* Number of concurrent tasks calling into the one service instance.
NumProcs == 2

Procs == 1..NumProcs

\* The service instances of the process.
Services == {"s1", "s2"}

VARIABLES
    innArg,         \* constructor argument inn (Optional[str])
    passwordArg,    \* constructor argument password (Optional[str])
    inn,            \* self.inn
    password,       \* self.password
    configured,     \* self.configured
    client,         \* self._client is a Client (TRUE) or None (FALSE)
    locked,         \* self._auth_lock._locked, of each instance
    waiters,        \* self._auth_lock._waiters, FIFO, of each instance
    token,          \* each instance's client's auth_provider holds a token
    svc,            \* the instance each task calls
    pc,             \* position of each task's coroutine
    kind,           \* which operation the task called
    together,       \* all the tasks' calls have been in flight at one time
    lookup,         \* outcome of the call's get_token()
    hs,             \* how far the call's handshake got
    ensured,        \* value _ensure_authenticated handed to its caller
    creates,        \* create_new_access_token invocations made by the call
    auths,          \* authenticate invocations made by the call
    posts,          \* http_client.post invocations made by the call
    payload,        \* response.json() of the call's POST
    result          \* what the call returned to the task

vars == <<innArg, passwordArg, inn, password, configured, client, locked,
          waiters, token, svc, pc, kind, together, lookup, hs, ensured, creates,
          auths, posts, payload, result>>

ctorVars == <<innArg, passwordArg, inn, password, configured, client>>

-----------------------------------------------------------------------------
\* Optional[str]: a string is a sequence of characters.

None == [some |-> FALSE, val |-> <<>>]
Some(s) == [some |-> TRUE, val |-> s]

\* Python truthiness of an Optional[str]: None and "" are falsy.
Truthy(o) == o.some /\ o.val # <<>>

IsSpace(c) == c = " "

RECURSIVE LStrip(_)
LStrip(s) == IF s # <<>> /\ IsSpace(Head(s)) THEN LStrip(Tail(s)) ELSE s

RECURSIVE RStrip(_)
RStrip(s) ==
    IF s # <<>> /\ IsSpace(s[Len(s)]) THEN RStrip(SubSeq(s, 1, Len(s) - 1)) ELSE s

\* str.strip()
Strip(s) == RStrip(LStrip(s))

\* Constructor arguments tried: absent, empty, whitespace-only, non-blank.
InnInputs == {None, Some(<<>>), Some(<<" ">>), Some(<<" ", "7", " ">>)}
PasswordInputs == {None, Some(<<>>), Some(<<" ">>), Some(<<"p">>)}

\* The same without the strip: the identifier kept as passed.
InitInnNoStrip(arg) == IF Truthy(arg) THEN Some(arg.val) ELSE None

\* self.inn = inn.strip() if inn else None
InitInn(arg) == IF Truthy(arg) THEN Some(Strip(arg.val)) ELSE None

\* A flag that looks at the identifier only.
InitConfiguredInnOnly(i, pw) == Truthy(i)

\* self.configured = bool(self.inn and self.password)
InitConfigured(i, pw) == Truthy(i) /\ Truthy(pw)

-----------------------------------------------------------------------------
\* Values of the response keys and of the calls' results.

NoneV == "None"
Raised == "raised"
Pending == "pending"
Unset == "-"

\* payload.get(k): None when the key is absent, else "" or an identifier.
ApprovedValues == {NoneV, "", "a"}
ReceiptUuidValues == {NoneV, "", "r"}
ReceiptUnderscoreValues == {NoneV, "", "u"}

Payloads ==
    [approvedReceiptUuid : ApprovedValues,
     receiptUuid : ReceiptUuidValues,
     receipt_uuid : ReceiptUnderscoreValues]

NoPayload ==
    [approvedReceiptUuid |-> Unset, receiptUuid |-> Unset, receipt_uuid |-> Unset]

\* Python truthiness of a response value.
TruthyV(v) == v # NoneV /\ v # ""

\* Python `x or y`: x when x is truthy, else y.
PyOr(x, y) == IF TruthyV(x) THEN x ELSE y

\* A tempting misreading of the fallback: take the value under the first key.
ExtractFirstKeyOnly(pl) == pl.approvedReceiptUuid

\* payload.get("approvedReceiptUuid") or payload.get("receiptUuid")
\*   or payload.get("receipt_uuid")
ExtractReceiptUuid(pl) ==
    PyOr(PyOr(pl.approvedReceiptUuid, pl.receiptUuid), pl.receipt_uuid)

-----------------------------------------------------------------------------
\* The state after construction, the tasks not started.
Constructed ==
    /\ innArg \in InnInputs
    /\ passwordArg \in PasswordInputs
    /\ inn = InitInn(innArg)
    /\ password = passwordArg
    /\ configured = InitConfigured(inn, password)
    /\ client = configured
    /\ locked = [s \in Services |-> FALSE]
    /\ waiters = [s \in Services |-> <<>>]
    /\ pc = [p \in Procs |-> "idle"]
    /\ kind = [p \in Procs |-> "none"]
    /\ together = FALSE
    /\ lookup = [p \in Procs |-> "none"]
    /\ hs = [p \in Procs |-> "none"]
    /\ ensured = [p \in Procs |-> Pending]
    /\ creates = [p \in Procs |-> 0]
    /\ auths = [p \in Procs |-> 0]
    /\ posts = [p \in Procs |-> 0]
    /\ payload = [p \in Procs |-> NoPayload]
    /\ result = [p \in Procs |-> Pending]

\* One instance, shared by all the tasks; its client may hold a token from
\* the start.
Init ==
    /\ Constructed
    /\ svc = [p \in Procs |-> "s1"]
    /\ \E t \in BOOLEAN : token = [s \in Services |-> s = "s1" /\ t]

\* Two instances built with a padded identifier and a non-blank secret,
\* neither client holding a token: the first task calls one instance, each
\* other task either of them.
InitTwo ==
    /\ Constructed
    /\ configured
    /\ passwordArg = Some(<<"p">>)
    /\ svc \in {f \in [Procs -> Services] : f[1] = "s1"}
    /\ token = [s \in Services |-> FALSE]

-----------------------------------------------------------------------------
\* asyncio.Lock as used by `async with self._auth_lock`.

\* A lock that never refuses: acquire without looking at its state.
CanAcquireAlways(s) == TRUE

\* Lock.acquire takes the lock at once when it is free and nobody queues.
CanAcquire(s) == ~locked[s] /\ waiters[s] = <<>>

\* An exit path that forgets the lock.
ReleaseLockNever(s) == UNCHANGED <<locked, waiters>>

\* Lock.release on leaving the `async with` block: the lock is freed and the
\* first waiter is woken; it leaves the queue when it resumes (LockGranted).
ReleaseLock(s) == locked' = [locked EXCEPT ![s] = FALSE] /\ UNCHANGED waiters

\* The operation returns (or raises) `v` to the task.
Return(p, v) ==
    /\ result' = [result EXCEPT ![p] = v]
    /\ pc' = [pc EXCEPT ![p] = "done"]

\* A caller that ignores what _ensure_authenticated answered.
MayPostUnchecked(v) == v \in {"True", "False"}

\* `if not await self._ensure_authenticated(): return None` lets the call
\* go on only when the answer is True.
MayPost(v) == v = "True"

\* _ensure_authenticated ends with `v` (a value, or the exception it lets
\* through) and its caller runs on to its next suspension: the task itself
\* gets `v`; create_income_receipt lets the exception through, returns None,
\* or builds the request (which may raise, caught) and awaits the POST.
EnsureExit(p, k, v) ==
    /\ ensured' = [ensured EXCEPT ![p] = v]
    /\ \/ /\ k = "ensure"
          /\ Return(p, v)
          /\ UNCHANGED posts
       \/ /\ k = "receipt"
          /\ v = Raised
          /\ Return(p, Raised)
          /\ UNCHANGED posts
       \/ /\ k = "receipt"
          /\ v = "False"
          /\ Return(p, NoneV)
          /\ UNCHANGED posts
       \/ /\ k = "receipt"
          /\ MayPost(v)
          /\ Return(p, NoneV)
          /\ UNCHANGED posts
       \/ /\ k = "receipt"
          /\ MayPost(v)
          /\ posts' = [posts EXCEPT ![p] = @ + 1]
          /\ pc' = [pc EXCEPT ![p] = "post"]
          /\ UNCHANGED result

\* A service that remembers a failed handshake and refuses later callers.
EnsureEnterLatched(p, k) ==
    IF ~client \/ \E q \in Procs : svc[q] = svc[p] /\ hs[q] \in {"acq_raised", "auth_raised"}
    THEN EnsureExit(p, k, "False") /\ UNCHANGED <<locked, waiters>>
    ELSE /\ \/ /\ CanAcquire(svc[p])
               /\ locked' = [locked EXCEPT ![svc[p]] = TRUE]
               /\ pc' = [pc EXCEPT ![p] = "get_token"]
               /\ UNCHANGED waiters
            \/ /\ ~CanAcquire(svc[p])
               /\ waiters' = [waiters EXCEPT ![svc[p]] = Append(@, p)]
               /\ pc' = [pc EXCEPT ![p] = "wait_lock"]
               /\ UNCHANGED locked
         /\ UNCHANGED <<ensured, posts, result>>

\* _ensure_authenticated up to its first suspension, called from operation
\* `k`: no client, or the lock taken and get_token() awaited, or queued
\* behind the lock.
EnsureEnter(p, k) ==
    IF ~client
    THEN EnsureExit(p, k, "False") /\ UNCHANGED <<locked, waiters>>
    ELSE /\ \/ /\ CanAcquire(svc[p])
               /\ locked' = [locked EXCEPT ![svc[p]] = TRUE]
               /\ pc' = [pc EXCEPT ![p] = "get_token"]
               /\ UNCHANGED waiters
            \/ /\ ~CanAcquire(svc[p])
               /\ waiters' = [waiters EXCEPT ![svc[p]] = Append(@, p)]
               /\ pc' = [pc EXCEPT ![p] = "wait_lock"]
               /\ UNCHANGED locked
         /\ UNCHANGED <<ensured, posts, result>>

\* The other tasks' calls in flight when a call starts.
Others(p) == {q \in Procs \ {p} : pc[q] \notin {"idle", "done"}}

-----------------------------------------------------------------------------
\* A task calls create_income_receipt: the configured check, then
\* _ensure_authenticated.
CreateIncomeReceipt(p) ==
    /\ pc[p] = "idle"
    /\ kind' = [kind EXCEPT ![p] = "receipt"]
    /\ together' = (together \/ Others(p) = Procs \ {p})
    /\ \/ /\ ~configured
          /\ Return(p, NoneV)
          /\ UNCHANGED <<locked, waiters, ensured, posts>>
       \/ /\ configured
          /\ EnsureEnter(p, "receipt")
    /\ UNCHANGED <<ctorVars, token, svc, lookup, hs, creates, auths, payload>>

\* A task calls _ensure_authenticated itself.
EnsureAuthenticated(p) ==
    /\ pc[p] = "idle"
    /\ kind' = [kind EXCEPT ![p] = "ensure"]
    /\ together' = (together \/ Others(p) = Procs \ {p})
    /\ EnsureEnter(p, "ensure")
    /\ UNCHANGED <<ctorVars, token, svc, lookup, hs, creates, auths, payload>>

\* The woken first waiter resumes inside Lock.acquire, takes the lock and
\* awaits get_token().
LockGranted(p) ==
    /\ pc[p] = "wait_lock"
    /\ ~locked[svc[p]]
    /\ waiters[svc[p]] # <<>>
    /\ Head(waiters[svc[p]]) = p
    /\ locked' = [locked EXCEPT ![svc[p]] = TRUE]
    /\ waiters' = [waiters EXCEPT ![svc[p]] = Tail(@)]
    /\ pc' = [pc EXCEPT ![p] = "get_token"]
    /\ UNCHANGED <<ctorVars, token, svc, kind, together, lookup, hs, ensured,
                   creates, auths, posts, payload, result>>

\* A lookup whose answer is not looked at: the handshake runs even when a
\* token is reported.
GetTokenReturnNoReuse(p) ==
    /\ pc[p] = "get_token"
    /\ \/ /\ lookup' = [lookup EXCEPT ![p] = "raised"]
          /\ EnsureExit(p, kind[p], Raised)
          /\ ReleaseLock(svc[p])
          /\ UNCHANGED creates
       \/ /\ lookup' = [lookup EXCEPT ![p] =
                          IF token[svc[p]] THEN "present" ELSE "absent"]
          /\ creates' = [creates EXCEPT ![p] = @ + 1]
          /\ pc' = [pc EXCEPT ![p] = "create_token"]
          /\ UNCHANGED <<locked, waiters, ensured, posts, result>>
    /\ UNCHANGED <<ctorVars, token, svc, kind, together, hs, auths, payload>>

\* get_token() answers: it raises (outside the try), or reports the token,
\* or reports none and create_new_access_token is awaited.
GetTokenReturn(p) ==
    /\ pc[p] = "get_token"
    /\ \/ /\ lookup' = [lookup EXCEPT ![p] = "raised"]
          /\ EnsureExit(p, kind[p], Raised)
          /\ ReleaseLock(svc[p])
          /\ UNCHANGED creates
       \/ /\ token[svc[p]]
          /\ lookup' = [lookup EXCEPT ![p] = "present"]
          /\ EnsureExit(p, kind[p], "True")
          /\ ReleaseLock(svc[p])
          /\ UNCHANGED creates
       \/ /\ ~token[svc[p]]
          /\ lookup' = [lookup EXCEPT ![p] = "absent"]
          /\ creates' = [creates EXCEPT ![p] = @ + 1]
          /\ pc' = [pc EXCEPT ![p] = "create_token"]
          /\ UNCHANGED <<locked, waiters, ensured, posts, result>>
    /\ UNCHANGED <<ctorVars, token, svc, kind, together, hs, auths, payload>>

\* create_new_access_token answers: a token payload, and authenticate is
\* awaited, or an exception, caught by `except Exception`.
CreateTokenReturn(p) ==
    /\ pc[p] = "create_token"
    /\ \/ /\ hs' = [hs EXCEPT ![p] = "acquired"]
          /\ auths' = [auths EXCEPT ![p] = @ + 1]
          /\ pc' = [pc EXCEPT ![p] = "authenticate"]
          /\ UNCHANGED <<locked, waiters, ensured, posts, result>>
       \/ /\ hs' = [hs EXCEPT ![p] = "acq_raised"]
          /\ EnsureExit(p, kind[p], "False")
          /\ ReleaseLock(svc[p])
          /\ UNCHANGED auths
    /\ UNCHANGED <<ctorVars, token, svc, kind, together, lookup, creates,
                   payload>>

\* An authenticate whose exception is swallowed: the call goes on as if
\* authenticated.
AuthenticateReturnSwallowed(p) ==
    /\ pc[p] = "authenticate"
    /\ \/ /\ hs' = [hs EXCEPT ![p] = "authenticated"]
          /\ token' = [token EXCEPT ![svc[p]] = TRUE]
          /\ EnsureExit(p, kind[p], "True")
       \/ /\ hs' = [hs EXCEPT ![p] = "auth_raised"]
          /\ EnsureExit(p, kind[p], "True")
          /\ UNCHANGED token
    /\ ReleaseLock(svc[p])
    /\ UNCHANGED <<ctorVars, svc, kind, together, lookup, creates, auths,
                   payload>>

\* authenticate answers: the collaborator now holds the token, or an
\* exception, caught by `except Exception`.
AuthenticateReturn(p) ==
    /\ pc[p] = "authenticate"
    /\ \/ /\ hs' = [hs EXCEPT ![p] = "authenticated"]
          /\ token' = [token EXCEPT ![svc[p]] = TRUE]
          /\ EnsureExit(p, kind[p], "True")
       \/ /\ hs' = [hs EXCEPT ![p] = "auth_raised"]
          /\ EnsureExit(p, kind[p], "False")
          /\ UNCHANGED token
    /\ ReleaseLock(svc[p])
    /\ UNCHANGED <<ctorVars, svc, kind, together, lookup, creates, auths,
                   payload>>

\* The POST answers: it raises, or response.json() raises, or the decoded
\* payload yields the receipt identifier.
PostReturn(p) ==
    /\ pc[p] = "post"
    /\ \/ /\ Return(p, NoneV)
          /\ UNCHANGED payload
       \/ \E pl \in Payloads :
            /\ payload' = [payload EXCEPT ![p] = pl]
            /\ Return(p, ExtractReceiptUuid(pl))
    /\ UNCHANGED <<ctorVars, locked, waiters, token, svc, kind, together,
                   lookup, hs, ensured, creates, auths, posts>>

\* A close that tears the client state down.
CloseTeardown(p) ==
    /\ pc[p] = "idle"
    /\ kind' = [kind EXCEPT ![p] = "close"]
    /\ together' = (together \/ Others(p) = Procs \ {p})
    /\ Return(p, NoneV)
    /\ token' = [token EXCEPT ![svc[p]] = FALSE]
    /\ locked' = [locked EXCEPT ![svc[p]] = FALSE]
    /\ UNCHANGED <<ctorVars, waiters, svc, lookup, hs, ensured, creates, auths,
                   posts, payload>>

\* A task calls close: return None.
Close(p) ==
    /\ pc[p] = "idle"
    /\ kind' = [kind EXCEPT ![p] = "close"]
    /\ together' = (together \/ Others(p) = Procs \ {p})
    /\ Return(p, NoneV)
    /\ UNCHANGED <<ctorVars, locked, waiters, token, svc, lookup, hs, ensured,
                   creates, auths, posts, payload>>

Next ==
    \E p \in Procs :
        \/ CreateIncomeReceipt(p)
        \/ EnsureAuthenticated(p)
        \/ LockGranted(p)
        \/ GetTokenReturn(p)
        \/ CreateTokenReturn(p)
        \/ AuthenticateReturn(p)
        \/ PostReturn(p)
        \/ Close(p)

\* One instance shared by the tasks.
Spec == Init /\ [][Next]_vars

\* Two instances in one process.
SpecTwo == InitTwo /\ [][Next]_vars

\* A suspended call of task p resumes: it is granted the lock, or the
\* collaborator call it awaits answers.
Resume(p) ==
    \/ LockGranted(p)
    \/ GetTokenReturn(p)
    \/ CreateTokenReturn(p)
    \/ AuthenticateReturn(p)
    \/ PostReturn(p)

\* One instance, every collaborator call eventually returning or raising and
\* the event loop running the coroutines that are ready: as long as some call
\* can resume, some call does.
FairSpec ==
    /\ Init
    /\ [][Next]_vars
    /\ WF_vars(\E p \in Procs : Resume(p))

-----------------------------------------------------------------------------
\* Vocabulary of the properties.

\* The tasks calling instance s.
On(s) == {p \in Procs : svc[p] = s}

\* The task is between acquiring the authentication lock and releasing it.
InLock(p) == pc[p] \in {"get_token", "create_token", "authenticate"}

\* The task's call has started and has not returned.
InFlight(p) == pc[p] \notin {"idle", "done"}

\* The call ran a handshake of its own and it succeeded.
HandshakeOk(p) == lookup[p] = "absent" /\ ensured[p] = "True"

\* The call ran a handshake of its own and it failed.
HandshakeFailed(p) == creates[p] = 1 /\ ensured[p] = "False"

\* get_token() was invoked by the call.
LookedUp(p) == pc[p] = "get_token" \/ lookup[p] # "none"

RECURSIVE SumUpTo(_, _)
SumUpTo(f, n) == IF n = 0 THEN 0 ELSE f[n] + SumUpTo(f, n - 1)

\* Total over all calls of a per-call counter.
Total(f) == SumUpTo(f, NumProcs)

Identifiers == {"a", "r", "u"}

\* A string with a character that is not a space.
NonBlank(s) == \E i \in 1..Len(s) : s[i] # " "

-----------------------------------------------------------------------------
\* C1: no exception ever escapes create_income_receipt or
\* _ensure_authenticated: whatever the collaborator calls do, neither
\* operation ends by raising to its caller.
C1_NoExceptionEscapes ==
    \A p \in Procs : ensured[p] # Raised /\ result[p] # Raised

\* Every task called create_income_receipt and all the calls were in
\* flight at one time: N calls started concurrently.
AllConcurrent == together /\ \A p \in Procs : kind[p] = "receipt"

\* C2 as stated: among N >= 2 create_income_receipt calls started
\* concurrently, one handshake occurs in total, never a second one, and no
\* two callers get different authentication outcomes, also when the
\* handshake fails.
C2_OneHandshakeUniform ==
    (NumProcs >= 2 /\ AllConcurrent) =>
        /\ Total(creates) <= 1
        /\ ~ \E p, q \in Procs : ensured[p] = "True" /\ ensured[q] = "False"

\* C2 amended: handshakes run one at a time and at most one succeeds; once
\* the collaborator holds the token no handshake is running and none starts;
\* no caller gets past ensure-authenticated with success before the token is
\* held; a caller of a configured service gets failure only from a handshake
\* it ran itself, so a failed handshake fails its own caller alone and the
\* next caller runs a fresh one.
C2_HandshakePerCallerUntilSuccess ==
    /\ Cardinality({p \in Procs : HandshakeOk(p)}) <= 1
    /\ Cardinality({p \in Procs : pc[p] \in {"create_token", "authenticate"}}) <= 1
    /\ \A p \in Procs :
          token[svc[p]] => pc[p] \notin {"create_token", "authenticate"}
    /\ \A p \in Procs : creates[p] <= 1 /\ auths[p] <= creates[p]
    /\ \A p \in Procs : (ensured[p] = "True" \/ pc[p] = "post") => token[svc[p]]
    /\ \A p \in Procs : (client /\ ensured[p] = "False") => HandshakeFailed(p)
    /\ \A p \in Procs : lookup[p] = "absent" => creates[p] = 1

\* Two concurrent receipt calls: the first one's handshake failed and it
\* returned absent; the second, queued meanwhile, ran its own handshake,
\* which succeeded, and is posting.
C2_Witness ==
    \E p, q \in Procs :
        /\ AllConcurrent
        /\ HandshakeFailed(p) /\ result[p] = NoneV
        /\ pc[q] = "post" /\ HandshakeOk(q)

\* C3: when the identifier or the secret is absent or empty the service is
\* unconfigured, every create_income_receipt call returns absent, no
\* collaborator call (token lookup, token acquisition, authenticate, POST) is
\* ever made and the authentication lock is never acquired.
C3_UnconfiguredNoCalls ==
    (~Truthy(innArg) \/ ~Truthy(passwordArg)) =>
        /\ ~configured
        /\ \A p \in Procs :
              kind[p] = "receipt" => pc[p] = "done" /\ result[p] = NoneV
        /\ \A p \in Procs : ~LookedUp(p)
        /\ Total(creates) = 0 /\ Total(auths) = 0 /\ Total(posts) = 0
        /\ \A s \in Services : ~locked[s] /\ waiters[s] = <<>>
        /\ \A p \in Procs : ~InLock(p) /\ pc[p] # "wait_lock"

\* An unconfigured service after two create_income_receipt calls.
C3_Witness ==
    /\ ~Truthy(passwordArg)
    /\ \E p, q \in Procs :
          /\ p # q
          /\ kind[p] = "receipt" /\ result[p] = NoneV
          /\ kind[q] = "receipt" /\ result[q] = NoneV

\* C4 as stated: configured is true exactly when both constructor
\* arguments are present and non-empty.
C4_ConfiguredIffPresentNonEmpty ==
    configured <=> (Truthy(innArg) /\ Truthy(passwordArg))

\* C4 amended: configured is true exactly when the identifier is present
\* and has a non-space character (it is trimmed first, so a whitespace-only
\* identifier counts as empty) and the secret is present and non-empty (it is
\* not trimmed, so a whitespace-only secret counts); the stored identifier is
\* the trimmed one, and no call changes the flag.
C4_ConfiguredIffTrimmedNonEmpty ==
    /\ configured <=> /\ innArg.some /\ NonBlank(innArg.val)
                      /\ passwordArg.some /\ Len(passwordArg.val) > 0
    /\ client = configured
    /\ Truthy(innArg) =>
          /\ inn.some
          /\ inn.val = << >> \/ (inn.val[1] # " " /\ inn.val[Len(inn.val)] # " ")

\* A service built with a padded identifier and a whitespace-only secret,
\* still configured after a receipt call and a close have completed.
C4_Witness ==
    /\ configured
    /\ innArg.val # inn.val
    /\ passwordArg.val = <<" ">>
    /\ \E p, q \in Procs :
          /\ kind[p] = "receipt" /\ pc[p] = "done"
          /\ kind[q] = "close" /\ pc[q] = "done"

\* C5: a create_income_receipt call issues no POST when a precondition
\* fails (unconfigured, or ensure-authenticated did not answer success),
\* never more than one, and exactly one when it awaits or has decoded a
\* response or returns an identifier.
C5_AtMostOnePost ==
    \A p \in Procs :
        /\ posts[p] <= 1
        /\ (~configured \/ ensured[p] \in {"False", Raised}) => posts[p] = 0
        /\ kind[p] # "receipt" => posts[p] = 0
        /\ (pc[p] = "post" \/ payload[p] # NoPayload) => posts[p] = 1
        /\ (kind[p] = "receipt" /\ result[p] \in Identifiers) => posts[p] = 1

\* One call returned an identifier after its single POST, another failed
\* authentication and returned absent without any POST.
C5_Witness ==
    \E p, q \in Procs :
        /\ result[p] \in Identifiers /\ posts[p] = 1
        /\ kind[q] = "receipt" /\ ensured[q] = "False"
        /\ pc[q] = "done" /\ result[q] = NoneV /\ posts[q] = 0

\* The value under the first key that is not absent, else absent.
FirstNonAbsent(pl) ==
    IF pl.approvedReceiptUuid # NoneV THEN pl.approvedReceiptUuid
    ELSE IF pl.receiptUuid # NoneV THEN pl.receiptUuid
    ELSE pl.receipt_uuid

\* C6 as stated: the identifier returned after a decoded response is the
\* value of the first key, in the order approvedReceiptUuid, receiptUuid,
\* receipt_uuid, whose value is not absent (an empty value included).
C6_FirstNonAbsentWins ==
    \A p \in Procs :
        payload[p] # NoPayload => result[p] = FirstNonAbsent(payload[p])

\* C6 amended: the identifier returned is the value of the first key, in
\* that order, whose value is neither absent nor empty; when no key has such
\* a value the call returns what is under receipt_uuid (absent or empty),
\* absent in particular when all three keys are absent, and never raises.
C6_FirstNonEmptyWins ==
    \A p \in Procs :
        payload[p] # NoPayload =>
            LET pl == payload[p] IN
            /\ result[p] # Raised /\ pc[p] = "done"
            /\ TruthyV(pl.approvedReceiptUuid) => result[p] = pl.approvedReceiptUuid
            /\ (~TruthyV(pl.approvedReceiptUuid) /\ TruthyV(pl.receiptUuid))
                  => result[p] = pl.receiptUuid
            /\ (~TruthyV(pl.approvedReceiptUuid) /\ ~TruthyV(pl.receiptUuid))
                  => result[p] = pl.receipt_uuid
            /\ (pl.approvedReceiptUuid = NoneV /\ pl.receiptUuid = NoneV
                  /\ pl.receipt_uuid = NoneV) => result[p] = NoneV

\* A response with an empty approvedReceiptUuid and a receiptUuid: the call
\* returned the receiptUuid.
C6_Witness ==
    \E p \in Procs :
        /\ payload[p].approvedReceiptUuid = ""
        /\ payload[p].receiptUuid = "r"
        /\ result[p] = "r"

\* C7: close completes returning nothing and changes no service state
\* (flag, credentials, lock and its waiters, collaborator token, the other
\* calls in flight), whatever the state it is called in.
C7_CloseChangesNothing ==
    [][\A p \in Procs :
          (kind[p] # "close" /\ kind'[p] = "close") =>
              /\ pc'[p] = "done" /\ result'[p] = NoneV
              /\ UNCHANGED <<ctorVars, locked, waiters, token, svc, lookup, hs,
                             ensured, creates, auths, posts, payload>>
              /\ \A q \in Procs \ {p} :
                    /\ pc'[q] = pc[q] /\ kind'[q] = kind[q]
                    /\ result'[q] = result[q]]_vars

\* close has completed while another call holds the authentication lock in
\* the middle of its handshake.
C7_Witness ==
    \E p, q \in Procs :
        /\ kind[p] = "close" /\ pc[p] = "done" /\ result[p] = NoneV
        /\ pc[q] = "authenticate" /\ locked[svc[q]]

\* C8: at most one call is between acquiring the authentication lock and
\* releasing it, in every interleaving.
C8_OneHandshakeInFlight ==
    Cardinality({p \in Procs : InLock(p)}) <= 1

\* One call is inside its handshake while another queues for the lock.
C8_Witness ==
    \E p, q \in Procs : pc[p] = "create_token" /\ pc[q] = "wait_lock"

\* C9: the lock is held exactly while some call is inside
\* ensure-authenticated's locked section, so it is free whenever none is,
\* on every exit path; the queue holds only waiting calls, and when the lock
\* is free either a newcomer takes it at once or the first waiter can.
C9_LockFreeOutside ==
    \A s \in Services :
        /\ locked[s] <=> \E p \in On(s) : InLock(p)
        /\ \A i \in 1..Len(waiters[s]) : pc[waiters[s][i]] = "wait_lock"
        /\ \A p \in On(s) :
              pc[p] = "wait_lock" => \E i \in 1..Len(waiters[s]) : waiters[s][i] = p
        /\ ~locked[s] => (CanAcquire(s) \/ ENABLED LockGranted(Head(waiters[s])))

\* A call's token lookup raised, and a later call holds the lock.
C9_Witness ==
    \E p, q \in Procs :
        /\ lookup[p] = "raised" /\ ensured[p] = Raised
        /\ pc[q] = "get_token" /\ locked[svc[q]]

\* C10: a call whose token lookup reported a token present gets success
\* from ensure-authenticated and invokes neither create_new_access_token nor
\* authenticate, whatever calls came before.
C10_TokenPresentNoHandshake ==
    \A p \in Procs :
        lookup[p] = "present" =>
            /\ creates[p] = 0 /\ auths[p] = 0
            /\ ensured[p] = "True"
            /\ pc[p] \in {"post", "done"}

\* After another call's handshake, a call found the token present and
\* returned from _ensure_authenticated.
C10_Witness ==
    \E p, q \in Procs :
        /\ lookup[p] = "present" /\ kind[p] = "ensure" /\ result[p] = "True"
        /\ HandshakeOk(q)

\* The call's handshake ended with an exception of the collaborator.
HandshakeRaised(p) == hs[p] \in {"acq_raised", "auth_raised"}

\* C11: when the token lookup reports no token, ensure-authenticated
\* answers success exactly when create_new_access_token and then
\* authenticate both completed; authenticate is invoked only once the
\* acquisition has completed, never after it raised; when either raised the
\* answer is failure, nothing is raised to the caller, and the enclosing
\* create_income_receipt returns absent without a POST.
C11_SuccessIffBothComplete ==
    \A p \in Procs :
        lookup[p] = "absent" =>
            /\ creates[p] = 1
            /\ ensured[p] # Raised /\ result[p] # Raised
            /\ ensured[p] = "True" <=> hs[p] = "authenticated"
            /\ ensured[p] = "False" <=> HandshakeRaised(p)
            /\ auths[p] = 1 <=> hs[p] \in {"acquired", "authenticated", "auth_raised"}
            /\ auths[p] = 0 <=> hs[p] \in {"none", "acq_raised"}
            /\ pc[p] = "create_token" <=> hs[p] = "none"
            /\ pc[p] = "authenticate" <=> hs[p] = "acquired"
            /\ (kind[p] = "receipt" /\ HandshakeRaised(p))
                  => pc[p] = "done" /\ result[p] = NoneV /\ posts[p] = 0
            /\ (kind[p] = "ensure" /\ pc[p] = "done") => result[p] = ensured[p]

\* A receipt call returned absent after its authenticate raised, and a
\* later call's acquisition and authenticate both completed.
C11_Witness ==
    \E p, q \in Procs :
        /\ kind[p] = "receipt" /\ hs[p] = "auth_raised" /\ result[p] = NoneV
        /\ lookup[q] = "absent" /\ hs[q] = "authenticated" /\ ensured[q] = "True"

\* C12: a call whose POST is in flight neither holds nor waits for the
\* authentication lock: if the lock of its instance is held then another
\* call is inside the locked section.  (That two POSTs, or a POST and
\* another call's handshake, are in flight together is shown by the
\* reachable states C12_Witness and C12_PostWhileOtherLocks.)
C12_PostOutsideLock ==
    \A p \in Procs :
        pc[p] = "post" =>
            /\ locked[svc[p]] => \E q \in On(svc[p]) \ {p} : InLock(q)
            /\ \A i \in 1..Len(waiters[svc[p]]) : waiters[svc[p]][i] # p
            /\ posts[p] = 1 /\ ensured[p] = "True"

\* Two POSTs of two calls on the same instance are in flight at one time.
C12_Witness ==
    \E p, q \in Procs :
        /\ p # q /\ svc[p] = svc[q]
        /\ pc[p] = "post" /\ pc[q] = "post"

\* One call's POST is in flight while another call on the same instance
\* holds the lock.
C12_PostWhileOtherLocks ==
    \E p, q \in Procs :
        /\ p # q /\ svc[p] = svc[q]
        /\ pc[p] = "post" /\ InLock(q) /\ locked[svc[q]]

\* C13 as stated: at most one call in the whole process is inside a locked
\* section, also when the calls are on two distinct instances.
C13_ProcessWideMutex ==
    \A p, q \in Procs : (InLock(p) /\ InLock(q)) => p = q

\* C13 amended: the lock belongs to the instance: at most one call per
\* instance is inside the locked section, an instance's lock is held
\* exactly while one of its own callers is inside, and only its own callers
\* queue for it; handshakes on two distinct instances are not serialized.
C13_PerInstanceMutex ==
    \A s \in Services :
        /\ Cardinality({p \in On(s) : InLock(p)}) <= 1
        /\ locked[s] <=> \E p \in On(s) : InLock(p)
        /\ \A i \in 1..Len(waiters[s]) : waiters[s][i] \in On(s)

\* Two create_income_receipt calls on two distinct instances are inside
\* their handshakes at the same time.
C13_Witness ==
    \E p, q \in Procs :
        /\ svc[p] # svc[q]
        /\ kind[p] = "receipt" /\ kind[q] = "receipt"
        /\ pc[p] = "create_token" /\ pc[q] = "authenticate"
        /\ locked[svc[p]] /\ locked[svc[q]]

\* C14: a failed handshake leaves no record: every call on a configured
\* service, whatever failed before it, queues for the lock or makes its own
\* token lookup, starts a handshake of its own when the lookup reports no
\* token, and gets failure only from a handshake it ran itself.
C14_FailureNotLatched ==
    \A p \in Procs :
        (configured /\ kind[p] \in {"receipt", "ensure"}) =>
            /\ pc[p] = "wait_lock" \/ LookedUp(p)
            /\ lookup[p] = "absent" => creates[p] = 1
            /\ ensured[p] = "False" => (lookup[p] = "absent" /\ HandshakeRaised(p))

\* A call's handshake failed and it returned absent; a call started after
\* it had returned ran a fresh handshake, posted and returned an identifier.
C14_Witness ==
    \E p, q \in Procs :
        /\ ~together
        /\ kind[q] = "receipt" /\ HandshakeRaised(q) /\ result[q] = NoneV
        /\ kind[p] = "receipt" /\ hs[p] = "authenticated"
        /\ posts[p] = 1 /\ result[p] \in Identifiers

\* C15: with every collaborator call eventually answering and every ready
\* coroutine eventually resumed, from some point on no call is left in
\* flight, whichever tasks started one and however the handshakes ended:
\* every started call has returned (a queued one after getting the lock),
\* and the lock is free with nobody queued.
C15_EveryCallReturns ==
    <>[](/\ \A p \in Procs : ~InFlight(p)
         /\ \A s \in Services : ~locked[s] /\ waiters[s] = <<>>)

\* All the calls were in flight together, each ran a handshake of its own
\* (so all but the first queued for the lock), and all have returned.
C15_Witness ==
    /\ together
    /\ \A p \in Procs : pc[p] = "done" /\ kind[p] = "receipt" /\ creates[p] = 1

====
